---- MODULE Spec2Model ----
(***************************************************************************)
(* libmavconn TCP link (src/libmavconn/src/tcp.cpp): the client Connection *)
(* (MAVConnTCPClient) with its outbound queue, receive loop and close      *)
(* path, and the Server Acceptor (MAVConnTCPServer) with its registry.     *)
(*                                                                         *)
(* Threads are caller threads plus one reactor thread (the io_thread that  *)
(* runs io_service.run()).  Every thread has a stack of frames; a frame    *)
(* is a call in progress and its pc names the statement it is about to     *)
(* execute.  A step is one statement sequence that touches shared state    *)
(* at one point: an unlocked read, a critical section of the connection's  *)
(* recursive mutex (no critical section of that mutex blocks, so each is   *)
(* one step), a post to the io_service, a join.                            *)
(***************************************************************************)
EXTENDS Integers, Sequences, FiniteSets, TLC

\* Bounds of the model.  MAX_TXQ_SIZE is the queue bound the code compares
\* against (tcp.cpp:220); its value is set in a header, the model uses a small one.
MAX_TXQ_SIZE == 2
MaxSends == 3
MaxLen == 2
BcastLen == 1

Callers == {"t1", "t2"}
IO == "io"
Threads == Callers \cup {IO}

C0 == "c0"
Accepted == {"a1", "a2"}
Conns == {C0} \cup Accepted
SRV == "srv"
Sender == "t1"
Closer == "t2"
Services == Conns \cup {SRV}

VARIABLES
  life,            \* per connection: "none" | "alive" | "dead" (object lifetime)
  owner,           \* per connection: the caller side still holds a shared_ptr
  sock_open,       \* per connection: socket.is_open()
  tx_q,            \* per connection: std::deque<MsgBuffer>, front first
  tx_in_progress,  \* per connection
  is_destroying,   \* per connection
  is_running,      \* per connection
  cb_installed,    \* per connection: port_closed_cb is set
  io_work,         \* per io_service: the io_service::work guard exists
  stopped,         \* per io_service: io_service.stop() called and not yet reset()
  thr,             \* per io_service owner: "none" | "spawned" | "running" | "exited" | "joined"
  posted_send,     \* per connection: do_send(true) handlers posted and not yet run
  posted_recv,     \* per connection: do_recv handler posted and not yet run
  rx_ops,          \* per connection: the outstanding async_receive operations, oldest
                   \* first, each "pending" | "ok" | "err"
  tx_ops,          \* per connection: the outstanding async_send operations, oldest first
  stack,           \* per thread: frames, top first
  reactor,         \* the io_service the reactor thread runs (C0 or SRV)
  next_id,         \* payloads handed to send_* so far
  crashed,         \* std::terminate was reached
  \* observations
  ret,             \* per caller: what its last send_* saw and how it ended
  wire,            \* per connection: bytes the socket took, in order
  accepted,        \* per connection: the payloads appended to tx_q, in order
  cb_count,        \* per connection: invocations of port_closed_cb
  self_join,       \* a thread called join() on itself
  closer,          \* per connection: the thread whose close() closed the socket
  cb_due,          \* per connection: close() calls that closed the socket with
                   \* port_closed_cb installed
  \* the Server Acceptor
  acc_open,        \* acceptor.is_open()
  srv_mutex,       \* the thread that holds the server's mutex, or "none"
  client_list,     \* std::list of the registered connections
  acc_op,          \* the outstanding async_accept: "none" | "pending" | "ok" | "err"
  acc_client,      \* the connection object the outstanding accept fills in, or "none"
  posted_accept,   \* do_accept handler posted and not yet run
  srv_cb_count,    \* invocations of the server's port_closed_cb
  srv_cb_due,      \* close() calls of the server that closed the acceptor with
                   \* port_closed_cb installed
  srv_life,        \* the server object: "none" | "alive" | "expired" (no shared_ptr
                   \* left, destructor entered) | "dying" (is_destroying set) | "dead"
  bcast            \* per caller: the registry at the start of its broadcast and the
                   \* connections it has called send_bytes on

cvars == <<life, owner, sock_open, tx_q, tx_in_progress, is_destroying, is_running,
           cb_installed, posted_send, posted_recv, rx_ops, tx_ops, wire, accepted,
           cb_count>>
svars == <<acc_open, srv_mutex, client_list, acc_op, acc_client, posted_accept,
           srv_cb_count, srv_cb_due, srv_life, bcast>>
obs == <<closer, cb_due>>
vars == <<cvars, svars, io_work, stopped, thr, stack, reactor, next_id, crashed, ret,
          self_join, obs>>

----------------------------------------------------------------------------
\* MsgBuffer and payloads

\* Byte i of the payload with identity id: distinct for distinct (id, i).
Byte(id, i) == id * 10 + i
Payload(id, len) == [i \in 1..len |-> Byte(id, i)]

MsgBuffer(id, len) == [id |-> id, data |-> Payload(id, len), len |-> len, pos |-> 0]

\* MsgBuffer::nbytes(): the bytes not yet sent.
nbytes(buf) == buf.len - buf.pos

\* MsgBuffer::dpos(): where the unsent bytes start (an offset into data).
dpos(buf) == buf.pos

\* socket.async_send(buffer(buf_ref.dpos(), buf_ref.nbytes()), ...)
AsyncSend(buf) == [st |-> "pending", buf |-> buf.id, off |-> dpos(buf), n |-> nbytes(buf), k |-> 0]

----------------------------------------------------------------------------
\* Frames

Frame(op, c, pc) == [op |-> op, c |-> c, pc |-> pc, id |-> 0, len |-> 0, i |-> 0]
SendFrame(c, pc, id, len) == [op |-> "send", c |-> c, pc |-> pc, id |-> id, len |-> len, i |-> 0]
BcastFrame(id, len, i) == [op |-> "bcast", c |-> SRV, pc |-> "loop", id |-> id, len |-> len, i |-> i]

Idle(t) == stack[t] = <<>>
Top(t) == Head(stack[t])
At(t, op, pc) == stack[t] # <<>> /\ Top(t).op = op /\ Top(t).pc = pc
Goto(stk, pc) == <<[Head(stk) EXCEPT !.pc = pc]>> \o Tail(stk)
Push(stk, f) == <<f>> \o stk

----------------------------------------------------------------------------
\* Ownership (std::shared_ptr): who keeps a connection object alive

Num(b) == IF b THEN 1 ELSE 0
InList(c) == \E i \in DOMAIN client_list : client_list[i] = c

\* The reactor is inside a completion handler of c; the handler's closure holds sthis.
HandlerHolds(c) == \E i \in DOMAIN stack[IO] : stack[IO][i].op = "handler" /\ stack[IO][i].c = c

\* The strong references to c other than a running handler's sthis: the caller's
\* pointer, the registry entry, the closures of the outstanding async_receive and
\* async_send operations, the posted do_send binds, the posted do_recv bind of an accepted
\* client (connect() posts a raw this), the outstanding accept's acceptor_client.
OtherRefs(c) ==
  Num(owner[c]) + Num(InList(c)) + Len(rx_ops[c]) + Len(tx_ops[c])
  + posted_send[c] + (IF c \in Accepted THEN posted_recv[c] ELSE 0)
  + Num(acc_client = c)

WeakResolves_Always(c) == TRUE

\* weak_instp.lock(): resolves while the object is not being destroyed.
WeakResolves(c) == life[c] = "alive"

\* The stack of a thread that has just dropped a reference to c: when it was the
\* last one, ~MAVConnTCPClient runs on that thread.
AfterRelease(stk, last, c) ==
  IF last /\ life[c] = "alive" THEN Push(stk, Frame("dtor", c, "flag")) ELSE stk

\* The last shared_ptr to c is gone: its weak_ptrs are expired and
\* ~MAVConnTCPClient is entered; no statement of it has run yet.
DtorBegins(last, c) ==
  /\ life' = [life EXCEPT ![c] = IF last /\ @ = "alive" THEN "dying" ELSE @]
  /\ UNCHANGED is_destroying

SharedFromThisThrows_Never(c) == FALSE

\* shared_from_this() on an object whose last shared_ptr is gone throws
\* std::bad_weak_ptr.
SharedFromThisThrows(c) == life[c] # "alive"

----------------------------------------------------------------------------
\* MAVConnTCPClient: decisions of the code, one operator each

\* is_open(): socket.is_open()
is_open(c) == sock_open[c]

QueueFull_OffByOne(q) == Len(q) > MAX_TXQ_SIZE

\* tx_q.size() >= MAX_TXQ_SIZE
QueueFull(q) == Len(q) >= MAX_TXQ_SIZE

EmplaceBack_Front(q, buf) == <<buf>> \o q

\* tx_q.emplace_back(bytes, length)
EmplaceBack(q, buf) == Append(q, buf)

AfterSendLock_EmplaceFirst(q, buf) == Append(q, buf)

\* The queue after send_bytes' critical section: the throw comes before the
\* emplace_back.
AfterSendLock(q, buf) == IF QueueFull(q) THEN q ELSE EmplaceBack(q, buf)

AlreadyClosed_Never(c) == FALSE

\* close(): if (!is_open()) return;
AlreadyClosed(c) == ~is_open(c)

\* close(), the rest of the critical section, run by thread t: shutdown, cancel,
\* close of the socket.
Teardown(t, c) ==
  /\ sock_open' = [sock_open EXCEPT ![c] = FALSE]
  /\ closer' = [closer EXCEPT ![c] = t]
  /\ cb_due' = [cb_due EXCEPT ![c] = @ + Num(cb_installed[c])]

\* io_thread.joinable()
Joinable(c) == thr[c] \in {"spawned", "running", "exited"}

\* std::this_thread::get_id() == io_thread.get_id(): only the connection's own
\* io_thread; an accepted client's io_thread is never started.
IsIoThread(t, c) == t = IO /\ reactor = c /\ Joinable(c)

\* The buffer buf_ref refers to: the element of tx_q the outstanding async_send was
\* started on (a reference into a std::deque stays valid until that element is popped).
BufIndex(q, id) == IF \E i \in DOMAIN q : q[i].id = id
                   THEN CHOOSE i \in DOMAIN q : q[i].id = id ELSE 0

Advance_Assign(buf, k) == [buf EXCEPT !.pos = k]

\* buf_ref.pos += bytes_transferred
Advance(buf, k) == [buf EXCEPT !.pos = @ + k]

PopIfSent_Always(q, i) == Tail(q)

\* if (buf_ref.nbytes() == 0) tx_q.pop_front()
PopIfSent(q, i) == IF nbytes(q[i]) = 0 THEN Tail(q) ELSE q

\* The bytes an async_send that completes with k bytes puts on the socket.
Written(q, op, k) ==
  LET i == BufIndex(q, op.buf) IN
  IF i = 0 THEN <<>> ELSE SubSeq(q[i].data, op.off + 1, op.off + k)

----------------------------------------------------------------------------
\* MAVConnTCPClient, called from caller threads (the standalone connection C0)

\* connect(): installs the callbacks, posts do_recv, starts io_thread.
Connect(t) ==
  /\ ~crashed
  /\ reactor = C0 /\ life[C0] = "alive" /\ owner[C0] /\ thr[C0] = "none"
  /\ \A u \in Callers : Idle(u)
  /\ cb_installed' = [cb_installed EXCEPT ![C0] = TRUE]
  /\ posted_recv' = [posted_recv EXCEPT ![C0] = 1]
  /\ thr' = [thr EXCEPT ![C0] = "spawned"]
  /\ UNCHANGED <<life, owner, sock_open, tx_q, tx_in_progress, is_destroying, is_running,
                 posted_send, rx_ops, tx_ops, wire, accepted, cb_count, svars, io_work,
                 stopped, stack, reactor, next_id, crashed, ret, self_join, obs>>

\* send_bytes / send_message, entry and the unlocked is_open() check.
CallSend(t, len) ==
  /\ ~crashed
  /\ reactor = C0 /\ life[C0] = "alive" /\ owner[C0] /\ Idle(t)
  /\ next_id < MaxSends
  /\ next_id' = next_id + 1
  /\ IF ~is_open(C0)
       THEN /\ ret' = [ret EXCEPT ![t] = [saw |-> "closed", out |-> "returned"]]
            /\ UNCHANGED stack
       ELSE /\ ret' = [ret EXCEPT ![t] = [saw |-> "open", out |-> "none"]]
            /\ stack' = [stack EXCEPT ![t] = <<SendFrame(C0, "lock", next_id + 1, len)>>]
  /\ UNCHANGED <<cvars, svars, io_work, stopped, thr, reactor, crashed, self_join, obs>>

\* send_bytes, the critical section: the bound check, the throw, the emplace_back.
\* A std::length_error leaves through every frame of the thread (nothing catches
\* it), releasing the server's mutex when a broadcast holds it.
SendLock(t) ==
  /\ ~crashed
  /\ At(t, "send", "lock")
  /\ LET f == Top(t) IN
     /\ tx_q' = [tx_q EXCEPT ![f.c] = AfterSendLock(@, MsgBuffer(f.id, f.len))]
     /\ IF QueueFull(tx_q[f.c])
          THEN /\ ret' = [ret EXCEPT ![t].out = "length_error"]
               /\ stack' = [stack EXCEPT ![t] = <<>>]
               /\ srv_mutex' = IF srv_mutex = t THEN "none" ELSE srv_mutex
               /\ UNCHANGED accepted
          ELSE /\ accepted' = [accepted EXCEPT ![f.c] = Append(@, Payload(f.id, f.len))]
               /\ stack' = [stack EXCEPT ![t] = Goto(@, "post")]
               /\ UNCHANGED <<ret, srv_mutex>>
  /\ UNCHANGED <<life, owner, sock_open, tx_in_progress, is_destroying, is_running,
                 cb_installed, posted_send, posted_recv, rx_ops, tx_ops, wire, cb_count,
                 acc_open, client_list, acc_op, acc_client, posted_accept, srv_cb_count, srv_cb_due, srv_life,
                 bcast, io_work, stopped, thr, reactor, next_id, crashed, self_join, obs>>

\* send_bytes, after the lock: GET_IO_SERVICE(socket).post(do_send(true)), return.
SendPost(t) ==
  /\ ~crashed
  /\ At(t, "send", "post")
  /\ posted_send' = [posted_send EXCEPT ![Top(t).c] = @ + 1]
  /\ stack' = [stack EXCEPT ![t] = Tail(@)]
  /\ ret' = [ret EXCEPT ![t].out = IF Tail(stack[t]) = <<>> THEN "returned" ELSE @]
  /\ UNCHANGED <<life, owner, sock_open, tx_q, tx_in_progress, is_destroying, is_running,
                 cb_installed, posted_recv, rx_ops, tx_ops, wire, accepted, cb_count,
                 svars, io_work, stopped, thr, reactor, next_id, crashed, self_join, obs>>

\* close(), entry and the critical section: return when not open, else
\* shutdown, cancel, close.
CallClose(t) ==
  /\ ~crashed
  /\ reactor = C0 /\ life[C0] = "alive" /\ owner[C0] /\ Idle(t)
  /\ IF AlreadyClosed(C0)
       THEN UNCHANGED <<sock_open, obs, stack>>
       ELSE /\ Teardown(t, C0)
            /\ stack' = [stack EXCEPT ![t] = <<Frame("close", C0, "stop")>>]
  /\ UNCHANGED <<life, owner, tx_q, tx_in_progress, is_destroying, is_running,
                 cb_installed, posted_send, posted_recv, rx_ops, tx_ops, wire, accepted,
                 cb_count, svars, io_work, stopped, thr, reactor, next_id, crashed, ret,
                 self_join>>

\* close(), after the lock: stop() unless the caller is the io_thread.
\* stop(): io_work.reset(); io_service.stop(); then the join (next step) when
\* the thread is joinable, else io_service.reset() at once.
CloseStop(t) ==
  /\ ~crashed
  /\ At(t, "close", "stop")
  /\ LET c == Top(t).c IN
     IF IsIoThread(t, c)
       THEN /\ stack' = [stack EXCEPT ![t] = Goto(@, "cb")]
            /\ UNCHANGED <<io_work, stopped>>
       ELSE /\ io_work' = [io_work EXCEPT ![c] = FALSE]
            /\ stopped' = [stopped EXCEPT ![c] = Joinable(c)]
            /\ stack' = [stack EXCEPT ![t] = Goto(@, IF Joinable(c) THEN "join" ELSE "cb")]
  /\ UNCHANGED <<cvars, svars, thr, reactor, next_id, crashed, ret, self_join, obs>>

\* stop(): io_thread.join(), then io_service.reset().  A thread that joins itself
\* gets std::system_error (resource deadlock avoided); thrown in the destructor
\* that ends in std::terminate.
StopJoin(t) ==
  /\ ~crashed
  /\ stack[t] # <<>> /\ Top(t).pc = "join" /\ Top(t).op \in {"close", "dtor"}
  /\ LET c == Top(t).c IN
     IF t = IO /\ reactor = c
       THEN /\ self_join' = TRUE
            /\ crashed' = TRUE
            /\ UNCHANGED <<thr, stopped, stack, life>>
       ELSE /\ thr[c] = "exited"
            /\ thr' = [thr EXCEPT ![c] = "joined"]
            /\ stopped' = [stopped EXCEPT ![c] = FALSE]
            /\ stack' = [stack EXCEPT ![t] = IF Top(t).op = "close" THEN Goto(@, "cb") ELSE Tail(@)]
            /\ life' = [life EXCEPT ![c] = IF Top(t).op = "dtor" THEN "dead" ELSE @]
            /\ UNCHANGED <<self_join, crashed>>
  /\ UNCHANGED <<owner, sock_open, tx_q, tx_in_progress, is_destroying, is_running,
                 cb_installed, posted_send, posted_recv, rx_ops, tx_ops, wire, accepted,
                 cb_count, svars, io_work, reactor, next_id, ret, obs>>

\* close(), last statement: if (port_closed_cb) port_closed_cb().  An accepted
\* client's callback is the server's client_closed(weak_client), which goes on to
\* the registry only when weak_instp.lock() resolves.
CloseCb(t) ==
  /\ ~crashed
  /\ At(t, "close", "cb")
  /\ LET c == Top(t).c IN
     /\ cb_count' = [cb_count EXCEPT ![c] = @ + Num(cb_installed[c])]
     /\ stack' = [stack EXCEPT ![t] =
          IF cb_installed[c] /\ c \in Accepted /\ WeakResolves(c)
            THEN Push(Tail(@), Frame("client_closed", c, "lock"))
            ELSE Tail(@)]
  /\ UNCHANGED <<life, owner, sock_open, tx_q, tx_in_progress, is_destroying, is_running,
                 cb_installed, posted_send, posted_recv, rx_ops, tx_ops, wire, accepted,
                 svars, io_work, stopped, thr, reactor, next_id, crashed, ret, self_join, obs>>

\* The caller side drops its shared_ptr (no caller is inside a call).  When it was
\* the last reference the destructor runs on this thread.
Release(t) ==
  /\ ~crashed
  /\ reactor = C0 /\ life[C0] = "alive" /\ owner[C0]
  /\ \A u \in Callers : Idle(u)
  /\ owner' = [owner EXCEPT ![C0] = FALSE]
  /\ LET last == OtherRefs(C0) = 1 /\ ~HandlerHolds(C0) IN
     /\ DtorBegins(last, C0)
     /\ stack' = [stack EXCEPT ![t] = AfterRelease(@, last, C0)]
  /\ UNCHANGED <<sock_open, tx_q, tx_in_progress, is_running, cb_installed, posted_send,
                 posted_recv, rx_ops, tx_ops, wire, accepted, cb_count, svars, io_work,
                 stopped, thr, reactor, next_id, crashed, ret, self_join, obs>>

\* ~MAVConnTCPClient: is_destroying = true.
DtorFlag(t) ==
  /\ ~crashed
  /\ At(t, "dtor", "flag")
  /\ is_destroying' = [is_destroying EXCEPT ![Top(t).c] = TRUE]
  /\ stack' = [stack EXCEPT ![t] = Goto(@, "close")]
  /\ UNCHANGED <<life, owner, sock_open, tx_q, tx_in_progress, is_running, cb_installed,
                 posted_send, posted_recv, rx_ops, tx_ops, wire, accepted, cb_count,
                 svars, io_work, stopped, thr, reactor, next_id, crashed, ret, self_join,
                 obs>>

\* ~MAVConnTCPClient: close() (its critical section).
DtorClose(t) ==
  /\ ~crashed
  /\ At(t, "dtor", "close")
  /\ LET c == Top(t).c IN
     IF AlreadyClosed(c)
       THEN /\ stack' = [stack EXCEPT ![t] = Goto(@, "stopchk")]
            /\ UNCHANGED <<sock_open, obs>>
       ELSE /\ Teardown(t, c)
            /\ stack' = [stack EXCEPT ![t] = Push(Goto(@, "stopchk"), Frame("close", c, "stop"))]
  /\ UNCHANGED <<life, owner, tx_q, tx_in_progress, is_destroying, is_running,
                 cb_installed, posted_send, posted_recv, rx_ops, tx_ops, wire, accepted,
                 cb_count, svars, io_work, stopped, thr, reactor, next_id, crashed, ret,
                 self_join>>

\* ~MAVConnTCPClient: if (is_running) stop(); then the members are destroyed and
\* the object is gone; ~thread() of a joinable io_thread calls std::terminate.
DtorStop(t) ==
  /\ ~crashed
  /\ At(t, "dtor", "stopchk")
  /\ LET c == Top(t).c IN
     IF is_running[c]
       THEN /\ io_work' = [io_work EXCEPT ![c] = FALSE]
            /\ stopped' = [stopped EXCEPT ![c] = TRUE]
            /\ stack' = [stack EXCEPT ![t] = Goto(@, "join")]
            /\ UNCHANGED <<life, crashed>>
       ELSE /\ life' = [life EXCEPT ![c] = "dead"]
            /\ crashed' = (reactor = c /\ Joinable(c))
            /\ stack' = [stack EXCEPT ![t] = Tail(@)]
            /\ UNCHANGED <<io_work, stopped>>
  /\ UNCHANGED <<owner, sock_open, tx_q, tx_in_progress, is_destroying, is_running,
                 cb_installed, posted_send, posted_recv, rx_ops, tx_ops, wire, accepted,
                 cb_count, svars, thr, reactor, next_id, ret, self_join, obs>>

----------------------------------------------------------------------------
\* The reactor thread: io_service.run() and the handlers it runs

\* The connections whose sockets live on the reactor's io_service.
OnReactor(c) == IF reactor = C0 THEN c = C0 ELSE c \in Accepted

\* run() takes the next handler: the thread is in run(), between handlers, and the
\* io_service is not stopped.
ReactorReady == thr[reactor] = "running" /\ Idle(IO) /\ ~stopped[reactor]

OutOfWork_NoWorkGuard ==
  /\ \A c \in Conns : OnReactor(c) =>
       posted_send[c] = 0 /\ posted_recv[c] = 0 /\ rx_ops[c] = <<>> /\ tx_ops[c] = <<>>
  /\ reactor = SRV => (acc_op = "none" /\ ~posted_accept)

\* run() has nothing left: no work guard, no posted handler, no outstanding operation.
OutOfWork ==
  /\ ~io_work[reactor]
  /\ \A c \in Conns : OnReactor(c) =>
       posted_send[c] = 0 /\ posted_recv[c] = 0 /\ rx_ops[c] = <<>> /\ tx_ops[c] = <<>>
  /\ reactor = SRV => (acc_op = "none" /\ ~posted_accept)

\* The io_thread's lambda starts: is_running = true (the client's lambda only).
ThreadStart ==
  /\ ~crashed
  /\ thr[reactor] = "spawned"
  /\ thr' = [thr EXCEPT ![reactor] = "running"]
  /\ is_running' = IF reactor = C0 THEN [is_running EXCEPT ![C0] = TRUE] ELSE is_running
  /\ UNCHANGED <<life, owner, sock_open, tx_q, tx_in_progress, is_destroying,
                 cb_installed, posted_send, posted_recv, rx_ops, tx_ops, wire, accepted,
                 cb_count, svars, io_work, stopped, stack, reactor, next_id, crashed,
                 ret, self_join, obs>>

\* io_service.run() returns (stopped, or out of work); is_running = false.
ReactorExit ==
  /\ ~crashed
  /\ thr[reactor] = "running" /\ Idle(IO)
  /\ stopped[reactor] \/ OutOfWork
  /\ thr' = [thr EXCEPT ![reactor] = "exited"]
  /\ is_running' = IF reactor = C0 THEN [is_running EXCEPT ![C0] = FALSE] ELSE is_running
  /\ UNCHANGED <<life, owner, sock_open, tx_q, tx_in_progress, is_destroying,
                 cb_installed, posted_send, posted_recv, rx_ops, tx_ops, wire, accepted,
                 cb_count, svars, io_work, stopped, stack, reactor, next_id, crashed,
                 ret, self_join, obs>>

\* A handler of c returns and its closure is destroyed; refs is the number of strong
\* references left.  With none left the destructor runs on the reactor thread.
HandlerReturns(c, refs) ==
  /\ DtorBegins(refs = 0, c)
  /\ stack' = [stack EXCEPT ![IO] = AfterRelease(<<>>, refs = 0, c)]

\* do_recv(): if (is_destroying) return; else socket.async_receive(...).
RecvIssues(c) == ~is_destroying[c]

\* The posted do_recv runs.  The bind of an accepted client holds a reference;
\* connect() binds a raw this: when the owner has dropped the last reference and
\* the destructor has not yet set is_destroying, shared_from_this() throws out of
\* io_service.run(); the client's thread lambda catches it, sets is_running = false
\* and ends (the server's lambda catches nothing).
RunDoRecv(c) ==
  /\ ~crashed
  /\ ReactorReady /\ OnReactor(c) /\ life[c] # "none" /\ posted_recv[c] > 0
  /\ posted_recv' = [posted_recv EXCEPT ![c] = @ - 1]
  /\ IF RecvIssues(c) /\ SharedFromThisThrows(c)
       THEN /\ thr' = [thr EXCEPT ![reactor] = IF reactor = SRV THEN @ ELSE "exited"]
            /\ is_running' = [is_running EXCEPT ![c] = FALSE]
            /\ crashed' = (reactor = SRV)
            /\ UNCHANGED <<rx_ops, life, is_destroying, stack>>
       ELSE /\ rx_ops' = [rx_ops EXCEPT ![c] = IF RecvIssues(c) THEN Append(@, "pending") ELSE @]
            /\ HandlerReturns(c, OtherRefs(c) - Num(c \in Accepted) + Num(RecvIssues(c)))
            /\ UNCHANGED <<thr, is_running, crashed>>
  /\ UNCHANGED <<owner, sock_open, tx_q, tx_in_progress, cb_installed, posted_send,
                 tx_ops, wire, accepted, cb_count, svars, io_work, stopped, reactor,
                 next_id, ret, self_join, obs>>

\* The async_receive handler runs.  On error: close() (here its critical section);
\* else parse_buffer() and do_recv().
RecvHandler(c) ==
  /\ ~crashed
  /\ ReactorReady /\ OnReactor(c) /\ rx_ops[c] # <<>> /\ Head(rx_ops[c]) # "pending"
  /\ IF Head(rx_ops[c]) = "err"
       THEN /\ rx_ops' = [rx_ops EXCEPT ![c] = Tail(@)]
            /\ IF AlreadyClosed(c)
                 THEN /\ HandlerReturns(c, OtherRefs(c) - 1)
                      /\ UNCHANGED <<sock_open, obs>>
                 ELSE /\ Teardown(IO, c)
                      /\ stack' = [stack EXCEPT ![IO] =
                           <<Frame("close", c, "stop"), Frame("handler", c, "end")>>]
                      /\ UNCHANGED <<life, is_destroying>>
       ELSE /\ rx_ops' = [rx_ops EXCEPT ![c] =
                 IF RecvIssues(c) THEN Append(Tail(@), "pending") ELSE Tail(@)]
            /\ HandlerReturns(c, OtherRefs(c) - 1 + Num(RecvIssues(c)))
            /\ UNCHANGED <<sock_open, obs>>
  /\ UNCHANGED <<owner, tx_q, tx_in_progress, is_running, cb_installed, posted_send,
                 posted_recv, tx_ops, wire, accepted, cb_count, svars, io_work, stopped,
                 thr, reactor, next_id, crashed, ret, self_join>>

DoSendIssues_NoCoalesce(check_tx_state, in_progress, q) == q # <<>>

DoSendIssues_ChainChecks(check_tx_state, in_progress, q) == ~in_progress /\ q # <<>>

\* do_send(check_tx_state) goes on to async_send: not coalesced, queue not empty.
DoSendIssues(check_tx_state, in_progress, q) ==
  ~(check_tx_state /\ in_progress) /\ q # <<>>

\* A posted do_send(true) runs.
RunDoSend(c) ==
  /\ ~crashed
  /\ ReactorReady /\ OnReactor(c) /\ posted_send[c] > 0
  /\ posted_send' = [posted_send EXCEPT ![c] = @ - 1]
  /\ LET issues == DoSendIssues(TRUE, tx_in_progress[c], tx_q[c]) IN
     /\ tx_in_progress' = [tx_in_progress EXCEPT ![c] = @ \/ issues]
     /\ tx_ops' = [tx_ops EXCEPT ![c] = IF issues THEN Append(@, AsyncSend(Head(tx_q[c]))) ELSE @]
     /\ HandlerReturns(c, OtherRefs(c) - 1 + Num(issues))
  /\ UNCHANGED <<owner, sock_open, tx_q, is_running, cb_installed, posted_recv, rx_ops,
                 wire, accepted, cb_count, svars, io_work, stopped, thr, reactor,
                 next_id, crashed, ret, self_join, obs>>

\* The async_send handler runs.  On error: close().  Else, under the lock: advance
\* buf_ref, pop it when sent, chain do_send(false) or clear tx_in_progress.
\* A buf_ref whose element was popped is a dangling reference.
SendHandler(c) ==
  /\ ~crashed
  /\ ReactorReady /\ OnReactor(c) /\ tx_ops[c] # <<>> /\ Head(tx_ops[c]).st # "pending"
  /\ LET op == Head(tx_ops[c])
         q == tx_q[c]
         i == BufIndex(q, op.buf)
         q1 == IF i = 0 THEN q ELSE PopIfSent([q EXCEPT ![i] = Advance(@, op.k)], i)
         chain == DoSendIssues(FALSE, TRUE, q1)
     IN
     IF op.st = "err"
       THEN /\ tx_ops' = [tx_ops EXCEPT ![c] = Tail(@)]
            /\ IF AlreadyClosed(c)
                 THEN /\ HandlerReturns(c, OtherRefs(c) - 1)
                      /\ UNCHANGED <<sock_open, obs>>
                 ELSE /\ Teardown(IO, c)
                      /\ stack' = [stack EXCEPT ![IO] =
                           <<Frame("close", c, "stop"), Frame("handler", c, "end")>>]
                      /\ UNCHANGED <<life, is_destroying>>
            /\ UNCHANGED <<tx_q, tx_in_progress, crashed>>
       ELSE IF q = <<>>
         THEN /\ tx_in_progress' = [tx_in_progress EXCEPT ![c] = FALSE]
              /\ tx_ops' = [tx_ops EXCEPT ![c] = Tail(@)]
              /\ HandlerReturns(c, OtherRefs(c) - 1)
              /\ UNCHANGED <<tx_q, sock_open, obs, crashed>>
         ELSE /\ crashed' = (crashed \/ i = 0)
              /\ tx_q' = [tx_q EXCEPT ![c] = q1]
              /\ tx_in_progress' = [tx_in_progress EXCEPT ![c] = chain]
              /\ tx_ops' = [tx_ops EXCEPT ![c] =
                   IF chain THEN Append(Tail(@), AsyncSend(Head(q1))) ELSE Tail(@)]
              /\ HandlerReturns(c, OtherRefs(c) - 1 + Num(chain))
              /\ UNCHANGED <<sock_open, obs>>
  /\ UNCHANGED <<owner, is_running, cb_installed, posted_send, posted_recv, rx_ops, wire,
                 accepted, cb_count, svars, io_work, stopped, thr, reactor, next_id, ret,
                 self_join>>

\* An error handler returns after its close().
HandlerEnd ==
  /\ ~crashed
  /\ At(IO, "handler", "end")
  /\ HandlerReturns(Top(IO).c, OtherRefs(Top(IO).c))
  /\ UNCHANGED <<owner, sock_open, tx_q, tx_in_progress, is_running, cb_installed,
                 posted_send, posted_recv, rx_ops, tx_ops, wire, accepted, cb_count,
                 svars, io_work, stopped, thr, reactor, next_id, crashed, ret, self_join, obs>>

----------------------------------------------------------------------------
\* The transport: the socket completes the oldest pending operation

FirstPendingRx(ops) == IF \E i \in DOMAIN ops : ops[i] = "pending"
                       THEN CHOOSE i \in DOMAIN ops : ops[i] = "pending" /\ \A j \in 1..(i-1) : ops[j] # "pending"
                       ELSE 0
FirstPendingTx(ops) == IF \E i \in DOMAIN ops : ops[i].st = "pending"
                       THEN CHOOSE i \in DOMAIN ops : ops[i].st = "pending" /\ \A j \in 1..(i-1) : ops[j].st # "pending"
                       ELSE 0

\* An async_receive completes: with data, or with an error (end of stream, a
\* socket error, operation_aborted once the socket is closed).
RxComplete(c, ok) ==
  /\ ~crashed
  /\ life[c] # "none"
  /\ FirstPendingRx(rx_ops[c]) # 0
  /\ ok => sock_open[c]
  /\ rx_ops' = [rx_ops EXCEPT ![c][FirstPendingRx(rx_ops[c])] = IF ok THEN "ok" ELSE "err"]
  /\ UNCHANGED <<life, owner, sock_open, tx_q, tx_in_progress, is_destroying, is_running,
                 cb_installed, posted_send, posted_recv, tx_ops, wire, accepted, cb_count,
                 svars, io_work, stopped, thr, stack, reactor, next_id, crashed, ret,
                 self_join, obs>>

\* An async_send completes: the socket took k of the n bytes offered (1 <= k <= n),
\* or k = 0 stands for an error.
TxComplete(c, k) ==
  /\ ~crashed
  /\ life[c] # "none"
  /\ FirstPendingTx(tx_ops[c]) # 0
  /\ LET i == FirstPendingTx(tx_ops[c])
         op == tx_ops[c][i] IN
     /\ k <= op.n
     /\ k > 0 => sock_open[c]
     /\ tx_ops' = [tx_ops EXCEPT ![c][i] = [@ EXCEPT !.st = IF k > 0 THEN "ok" ELSE "err", !.k = k]]
     /\ wire' = [wire EXCEPT ![c] = @ \o Written(tx_q[c], op, k)]
  /\ UNCHANGED <<life, owner, sock_open, tx_q, tx_in_progress, is_destroying, is_running,
                 cb_installed, posted_send, posted_recv, rx_ops, accepted, cb_count,
                 svars, io_work, stopped, thr, stack, reactor, next_id, crashed, ret,
                 self_join, obs>>

----------------------------------------------------------------------------
\* The standalone client

InitCommon ==
  /\ tx_q = [c \in Conns |-> <<>>]
  /\ tx_in_progress = [c \in Conns |-> FALSE]
  /\ is_destroying = [c \in Conns |-> FALSE]
  /\ is_running = [c \in Conns |-> FALSE]
  /\ posted_send = [c \in Conns |-> 0]
  /\ posted_recv = [c \in Conns |-> 0]
  /\ rx_ops = [c \in Conns |-> <<>>]
  /\ tx_ops = [c \in Conns |-> <<>>]
  /\ wire = [c \in Conns |-> <<>>]
  /\ accepted = [c \in Conns |-> <<>>]
  /\ cb_count = [c \in Conns |-> 0]
  /\ cb_installed = [c \in Conns |-> FALSE]
  /\ stopped = [s \in Services |-> FALSE]
  /\ thr = [s \in Services |-> "none"]
  /\ stack = [t \in Threads |-> <<>>]
  /\ next_id = 0
  /\ crashed = FALSE
  /\ ret = [t \in Callers |-> [saw |-> "none", out |-> "none"]]
  /\ closer = [c \in Conns |-> "none"]
  /\ cb_due = [c \in Conns |-> 0]
  /\ self_join = FALSE
  /\ srv_mutex = "none"
  /\ client_list = <<>>
  /\ acc_op = "none"
  /\ acc_client = "none"
  /\ posted_accept = FALSE
  /\ srv_cb_count = 0
  /\ srv_cb_due = 0
  /\ bcast = [t \in Callers |-> [reg |-> {}, tried |-> {}]]

\* After MAVConnTCPClient(system_id, component_id, host, port): the socket is
\* connected, the work guard exists, nothing is started.
Init ==
  /\ InitCommon
  /\ reactor = C0
  /\ life = [c \in Conns |-> IF c = C0 THEN "alive" ELSE "none"]
  /\ owner = [c \in Conns |-> c = C0]
  /\ sock_open = [c \in Conns |-> c = C0]
  /\ io_work = [s \in Services |-> s = C0]
  /\ acc_open = FALSE
  /\ srv_life = "none"

Next ==
  \/ \E t \in Callers : Connect(t)
  \/ \E t \in Callers, len \in 1..MaxLen : CallSend(t, len)
  \/ \E t \in Callers : SendLock(t)
  \/ \E t \in Callers : SendPost(t)
  \/ \E t \in Callers : CallClose(t)
  \/ \E t \in Callers : Release(t)
  \/ \E t \in Threads : CloseStop(t)
  \/ \E t \in Threads : StopJoin(t)
  \/ \E t \in Threads : CloseCb(t)
  \/ \E t \in Threads : DtorFlag(t)
  \/ \E t \in Threads : DtorClose(t)
  \/ \E t \in Threads : DtorStop(t)
  \/ ThreadStart
  \/ ReactorExit
  \/ RunDoRecv(C0)
  \/ RecvHandler(C0)
  \/ RunDoSend(C0)
  \/ SendHandler(C0)
  \/ HandlerEnd
  \/ \E ok \in BOOLEAN : RxComplete(C0, ok)
  \/ \E k \in 0..MaxLen : TxComplete(C0, k)

Spec == Init /\ [][Next]_vars

\* The standalone client while it stays open: callers connect and send, nobody
\* closes or releases it, the peer sends data and takes every write in part or
\* whole, and no operation fails.
NextDrain ==
  \/ \E t \in Callers : Connect(t)
  \/ \E t \in Callers, len \in 1..MaxLen : CallSend(t, len)
  \/ \E t \in Callers : SendLock(t)
  \/ \E t \in Callers : SendPost(t)
  \/ ThreadStart
  \/ RunDoRecv(C0)
  \/ RecvHandler(C0)
  \/ RunDoSend(C0)
  \/ SendHandler(C0)
  \/ RxComplete(C0, TRUE)
  \/ \E k \in 1..MaxLen : TxComplete(C0, k)

\* io_service.run() takes every posted handler and every completed operation's
\* handler in turn; the socket completes an outstanding write; a thread inside
\* send_bytes goes on to its post.
FairDrain ==
  /\ WF_vars(RunDoSend(C0))
  /\ WF_vars(SendHandler(C0))
  /\ WF_vars(\E k \in 1..MaxLen : TxComplete(C0, k))
  /\ WF_vars(\E t \in Callers : SendPost(t))

SpecDrain == Init /\ [][NextDrain]_vars /\ FairDrain

----------------------------------------------------------------------------
\* MAVConnTCPServer

\* connect() installs port_closed_cb and starts the thread in one call.
SrvCbInstalled == thr[SRV] # "none"

\* std::make_shared<MAVConnTCPClient>(sys_id, comp_id, io_service): the next
\* connection object of the model, "none" when the model has no more.
NewClient ==
  IF \E c \in Accepted : life[c] = "none"
    THEN CHOOSE c \in Accepted : life[c] = "none" /\ (c = "a1" \/ life["a1"] # "none")
    ELSE "none"

RemoveClient_Front(list, c) == Tail(list)

\* client_list.remove(instp)
RemoveClient(list, c) == SelectSeq(list, LAMBDA x : x # c)

\* do_accept(): a new client object and an async_accept into it.
DoAccept(old) ==
  /\ acc_op' = "pending"
  /\ acc_client' = NewClient
  /\ life' = [x \in Conns |-> IF x = NewClient THEN "alive" ELSE old[x]]

\* connect(): installs the callbacks, posts do_accept, starts io_thread.
SrvConnect(t) ==
  /\ ~crashed
  /\ reactor = SRV /\ srv_life = "alive" /\ thr[SRV] = "none"
  /\ \A u \in Callers : Idle(u)
  /\ posted_accept' = TRUE
  /\ thr' = [thr EXCEPT ![SRV] = "spawned"]
  /\ UNCHANGED <<cvars, acc_open, srv_mutex, client_list, acc_op, acc_client,
                 srv_cb_count, srv_cb_due, srv_life, bcast, io_work, stopped, stack, reactor, next_id,
                 crashed, ret, self_join, obs>>

\* The posted do_accept runs (the bind holds a raw this).  With is_destroying set
\* it returns; with the last shared_ptr gone and is_destroying not yet set,
\* shared_from_this() throws std::bad_weak_ptr out of run() and of the thread's
\* lambda, which catches nothing: std::terminate.
RunDoAccept ==
  /\ ~crashed
  /\ ReactorReady /\ reactor = SRV /\ posted_accept
  /\ srv_life \in {"alive", "expired", "dying"}
  /\ posted_accept' = FALSE
  /\ IF srv_life = "alive"
       THEN DoAccept(life) /\ UNCHANGED crashed
       ELSE /\ crashed' = (srv_life = "expired")
            /\ UNCHANGED <<acc_op, acc_client, life>>
  /\ UNCHANGED <<owner, sock_open, tx_q, tx_in_progress, is_destroying, is_running,
                 cb_installed, posted_send, posted_recv, rx_ops, tx_ops, wire, accepted,
                 cb_count, acc_open, srv_mutex, client_list, srv_cb_count, srv_cb_due,
                 srv_life, bcast, io_work, stopped, thr, stack, reactor, next_id, ret,
                 self_join, obs>>

\* The async_accept completes: a peer connected (the client's socket is open), or
\* an error (operation_aborted once the acceptor is closed).
AcceptComplete(ok) ==
  /\ ~crashed
  /\ acc_op = "pending"
  /\ ok => (acc_open /\ acc_client # "none")
  /\ acc_op' = IF ok THEN "ok" ELSE "err"
  /\ sock_open' = IF ok THEN [sock_open EXCEPT ![acc_client] = TRUE] ELSE sock_open
  /\ UNCHANGED <<life, owner, tx_q, tx_in_progress, is_destroying, is_running,
                 cb_installed, posted_send, posted_recv, rx_ops, tx_ops, wire, accepted,
                 cb_count, acc_open, srv_mutex, client_list, acc_client, posted_accept,
                 srv_cb_count, srv_cb_due, srv_life, bcast, io_work, stopped, thr, stack, reactor, next_id,
                 crashed, ret, self_join, obs>>

\* The async_accept handler starts: on error it calls close() of the server (and
\* returns after it), else it goes for the server's mutex.
AcceptHandler ==
  /\ ~crashed
  /\ ReactorReady /\ reactor = SRV /\ acc_op \in {"ok", "err"}
  /\ acc_op' = "none"
  /\ stack' = [stack EXCEPT ![IO] =
       IF acc_op = "err"
         THEN <<Frame("srv_close", SRV, "lock"), Frame("accept_h", acc_client, "end")>>
         ELSE <<Frame("accept_h", acc_client, "lock")>>]
  /\ UNCHANGED <<cvars, acc_open, srv_mutex, client_list, acc_client, posted_accept,
                 srv_cb_count, srv_cb_due, srv_life, bcast, io_work, stopped, thr, reactor, next_id, crashed,
                 ret, self_join, obs>>

\* The accept handler under the server's mutex: wires the callbacks,
\* client_connected() posts the client's do_recv, push_back, do_accept().
AcceptLock ==
  /\ ~crashed
  /\ At(IO, "accept_h", "lock") /\ srv_mutex = "none"
  /\ LET c == Top(IO).c IN
     /\ cb_installed' = [cb_installed EXCEPT ![c] = TRUE]
     /\ posted_recv' = [posted_recv EXCEPT ![c] = @ + 1]
     /\ client_list' = Append(client_list, c)
     /\ DoAccept(life)
  /\ stack' = [stack EXCEPT ![IO] = Tail(@)]
  /\ UNCHANGED <<owner, sock_open, tx_q, tx_in_progress, is_destroying, is_running,
                 posted_send, rx_ops, tx_ops, wire, accepted, cb_count, acc_open,
                 srv_mutex, posted_accept, srv_cb_count, srv_cb_due, srv_life, bcast, io_work, stopped, thr,
                 reactor, next_id, crashed, ret, self_join, obs>>

SrvCloseEffect_NoOpenCheck(t, rest) ==
  /\ acc_open' = FALSE
  /\ srv_mutex' = t
  /\ stopped' = [stopped EXCEPT ![SRV] = TRUE]
  /\ srv_cb_due' = srv_cb_due + Num(SrvCbInstalled)
  /\ stack' = [stack EXCEPT ![t] = Push(rest, Frame("srv_close", SRV, "join"))]
  /\ UNCHANGED client_list

SrvCloseEffect_Cascade(t, rest) ==
  IF ~acc_open
    THEN /\ stack' = [stack EXCEPT ![t] = rest]
         /\ UNCHANGED <<acc_open, srv_mutex, stopped, srv_cb_due, client_list>>
    ELSE /\ acc_open' = FALSE
         /\ srv_mutex' = t
         /\ stopped' = [stopped EXCEPT ![SRV] = TRUE]
         /\ srv_cb_due' = srv_cb_due + Num(SrvCbInstalled)
         /\ stack' = [stack EXCEPT ![t] = Push(rest, Frame("srv_close", SRV, "join"))]
         /\ client_list' = <<>>

\* close() of the server after lock_guard lock(mutex): return when not open, else
\* io_service.stop(), acceptor.close(); the mutex stays held for the join.
\* Nothing in close() touches client_list.
SrvCloseEffect(t, rest) ==
  IF ~acc_open
    THEN /\ stack' = [stack EXCEPT ![t] = rest]
         /\ UNCHANGED <<acc_open, srv_mutex, stopped, srv_cb_due, client_list>>
    ELSE /\ acc_open' = FALSE
         /\ srv_mutex' = t
         /\ stopped' = [stopped EXCEPT ![SRV] = TRUE]
         /\ srv_cb_due' = srv_cb_due + Num(SrvCbInstalled)
         /\ stack' = [stack EXCEPT ![t] = Push(rest, Frame("srv_close", SRV, "join"))]
         /\ UNCHANGED client_list

\* close() of the server, called by a caller thread.
SrvCallClose(t) ==
  /\ ~crashed
  /\ reactor = SRV /\ srv_life = "alive" /\ Idle(t) /\ srv_mutex = "none"
  /\ SrvCloseEffect(t, <<>>)
  /\ UNCHANGED <<cvars, acc_op, acc_client, posted_accept, srv_cb_count, srv_life,
                 bcast, io_work, thr, reactor, next_id, crashed, ret, self_join, obs>>

\* close() of the server, called by the accept handler on the reactor thread.
SrvCloseLock(t) ==
  /\ ~crashed
  /\ At(t, "srv_close", "lock") /\ srv_mutex = "none"
  /\ SrvCloseEffect(t, Tail(stack[t]))
  /\ UNCHANGED <<cvars, acc_op, acc_client, posted_accept, srv_cb_count, srv_life,
                 bcast, io_work, thr, reactor, next_id, crashed, ret, self_join, obs>>

\* close() of the server: if (io_thread.joinable()) io_thread.join(); then the
\* closed-callback; the lock_guard releases the mutex on return.  A join of the
\* calling thread itself throws std::system_error out of the thread's function.
SrvCloseJoin(t) ==
  /\ ~crashed
  /\ At(t, "srv_close", "join")
  /\ IF Joinable(SRV) /\ t = IO
       THEN /\ self_join' = TRUE
            /\ crashed' = TRUE
            /\ UNCHANGED <<thr, srv_cb_count, srv_mutex, stack>>
       ELSE /\ Joinable(SRV) => thr[SRV] = "exited"
            /\ thr' = [thr EXCEPT ![SRV] = IF Joinable(SRV) THEN "joined" ELSE @]
            /\ srv_cb_count' = srv_cb_count + Num(SrvCbInstalled)
            /\ srv_mutex' = "none"
            /\ stack' = [stack EXCEPT ![t] = Tail(@)]
            /\ UNCHANGED <<self_join, crashed>>
  /\ UNCHANGED <<cvars, acc_open, client_list, acc_op, acc_client, posted_accept,
                 srv_cb_due, srv_life, bcast, io_work, stopped, reactor, next_id,
                 ret, obs>>

\* The strong references to the server other than the owner's: the closure of the
\* accept operation or of its running handler (sthis), and the port_closed_cb of
\* every wired client (sthis).
SrvOtherRefs ==
  Num(acc_op # "none")
  + Num(\E i \in DOMAIN stack[IO] : stack[IO][i].op = "accept_h")
  + Cardinality({c \in Accepted : cb_installed[c] /\ life[c] \in {"alive", "dying"}})

\* The owner drops the last shared_ptr to the server: ~MAVConnTCPServer is entered
\* on this thread.  (While other references remain the object lives on and no
\* caller can reach it any more: the runs in which the callers make no further
\* call.)
SrvRelease(t) ==
  /\ ~crashed
  /\ reactor = SRV /\ srv_life = "alive" /\ SrvOtherRefs = 0
  /\ \A u \in Callers : Idle(u)
  /\ srv_life' = "expired"
  /\ stack' = [stack EXCEPT ![t] = <<Frame("srv_dtor", SRV, "flag")>>]
  /\ UNCHANGED <<cvars, acc_open, srv_mutex, client_list, acc_op, acc_client,
                 posted_accept, srv_cb_count, srv_cb_due, bcast, io_work, stopped, thr,
                 reactor, next_id, crashed, ret, self_join, obs>>

\* ~MAVConnTCPServer: is_destroying = true.
SrvDtorFlag(t) ==
  /\ ~crashed
  /\ At(t, "srv_dtor", "flag")
  /\ srv_life' = "dying"
  /\ stack' = [stack EXCEPT ![t] = Goto(@, "close")]
  /\ UNCHANGED <<cvars, acc_open, srv_mutex, client_list, acc_op, acc_client,
                 posted_accept, srv_cb_count, srv_cb_due, bcast, io_work, stopped, thr,
                 reactor, next_id, crashed, ret, self_join, obs>>

\* ~MAVConnTCPServer: close().
SrvDtorClose(t) ==
  /\ ~crashed
  /\ At(t, "srv_dtor", "close") /\ srv_mutex = "none"
  /\ SrvCloseEffect(t, Goto(stack[t], "end"))
  /\ UNCHANGED <<cvars, acc_op, acc_client, posted_accept, srv_cb_count, srv_life,
                 bcast, io_work, thr, reactor, next_id, crashed, ret, self_join, obs>>

\* ~MAVConnTCPServer returns and the members are destroyed; ~thread() of a
\* joinable io_thread calls std::terminate.
SrvDtorEnd(t) ==
  /\ ~crashed
  /\ At(t, "srv_dtor", "end")
  /\ srv_life' = "dead"
  /\ crashed' = Joinable(SRV)
  /\ stack' = [stack EXCEPT ![t] = Tail(@)]
  /\ UNCHANGED <<cvars, acc_open, srv_mutex, client_list, acc_op, acc_client,
                 posted_accept, srv_cb_count, srv_cb_due, bcast, io_work, stopped, thr,
                 reactor, next_id, ret, self_join, obs>>

\* send_bytes / send_message of the server: lock_guard lock(mutex), then the loop
\* over client_list.
SrvCallSend(t, len) ==
  /\ ~crashed
  /\ reactor = SRV /\ srv_life = "alive" /\ Idle(t) /\ srv_mutex = "none"
  /\ next_id < MaxSends
  /\ next_id' = next_id + 1
  /\ srv_mutex' = t
  /\ bcast' = [bcast EXCEPT ![t] = [reg |-> {client_list[i] : i \in DOMAIN client_list},
                                     tried |-> {}]]
  /\ ret' = [ret EXCEPT ![t] = [saw |-> "none", out |-> "none"]]
  /\ stack' = [stack EXCEPT ![t] = <<BcastFrame(next_id + 1, len, 1)>>]
  /\ UNCHANGED <<cvars, acc_open, client_list, acc_op, acc_client, posted_accept,
                 srv_cb_count, srv_cb_due, srv_life, io_work, stopped, thr, reactor, crashed, self_join, obs>>

\* The loop: instp->send_bytes(bytes, length) on the next client, or the end of
\* the list (the lock_guard releases the mutex).
BcastNext(t) ==
  /\ ~crashed
  /\ At(t, "bcast", "loop")
  /\ LET f == Top(t) IN
     IF f.i > Len(client_list)
       THEN /\ srv_mutex' = "none"
            /\ stack' = [stack EXCEPT ![t] = Tail(@)]
            /\ ret' = [ret EXCEPT ![t].out = "returned"]
            /\ UNCHANGED bcast
       ELSE /\ bcast' = [bcast EXCEPT ![t].tried = @ \cup {client_list[f.i]}]
            /\ stack' = [stack EXCEPT ![t] =
                 Push(<<[f EXCEPT !.i = @ + 1]>> \o Tail(@),
                      SendFrame(client_list[f.i], "check", f.id, f.len))]
            /\ UNCHANGED <<srv_mutex, ret>>
  /\ UNCHANGED <<cvars, acc_open, client_list, acc_op, acc_client, posted_accept,
                 srv_cb_count, srv_cb_due, srv_life, io_work, stopped, thr, reactor, next_id, crashed,
                 self_join, obs>>

\* The client's send_bytes inside the loop: the unlocked is_open() check.
SendCheck(t) ==
  /\ ~crashed
  /\ At(t, "send", "check")
  /\ stack' = [stack EXCEPT ![t] = IF is_open(Top(t).c) THEN Goto(@, "lock") ELSE Tail(@)]
  /\ ret' = [ret EXCEPT ![t].saw = IF is_open(Top(t).c) THEN @ ELSE "closed"]
  /\ UNCHANGED <<cvars, svars, io_work, stopped, thr, reactor, next_id, crashed,
                 self_join, obs>>

\* client_closed(weak_instp), after the weak pointer resolved: remove under the
\* server's mutex.
ClientClosed(t) ==
  /\ ~crashed
  /\ At(t, "client_closed", "lock") /\ srv_mutex = "none"
  /\ client_list' = RemoveClient(client_list, Top(t).c)
  /\ stack' = [stack EXCEPT ![t] = Tail(@)]
  /\ UNCHANGED <<cvars, acc_open, srv_mutex, acc_op, acc_client, posted_accept,
                 srv_cb_count, srv_cb_due, srv_life, bcast, io_work, stopped, thr, reactor, next_id, crashed,
                 ret, self_join, obs>>

\* After MAVConnTCPServer(system_id, component_id, host, port): the acceptor
\* listens, nothing is started, no client exists.
InitServer ==
  /\ InitCommon
  /\ reactor = SRV
  /\ life = [c \in Conns |-> "none"]
  /\ owner = [c \in Conns |-> FALSE]
  /\ sock_open = [c \in Conns |-> FALSE]
  /\ io_work = [s \in Services |-> FALSE]
  /\ acc_open = TRUE
  /\ srv_life = "alive"

\* The environment of the server: one thread broadcasts messages of BcastLen
\* bytes, another one connects and closes the server; a peer takes a write whole
\* and goes away by an error on the pending read.
NextServer ==
  \/ SrvConnect(Closer)
  \/ SrvCallSend(Sender, BcastLen)
  \/ \E t \in Callers : BcastNext(t)
  \/ \E t \in Callers : SendCheck(t)
  \/ \E t \in Callers : SendLock(t)
  \/ \E t \in Callers : SendPost(t)
  \/ SrvCallClose(Closer)
  \/ SrvRelease(Closer)
  \/ \E t \in Callers : SrvDtorFlag(t)
  \/ \E t \in Callers : SrvDtorClose(t)
  \/ \E t \in Callers : SrvDtorEnd(t)
  \/ \E t \in Threads : SrvCloseLock(t)
  \/ \E t \in Threads : SrvCloseJoin(t)
  \/ \E t \in Threads : CloseStop(t)
  \/ \E t \in Threads : CloseCb(t)
  \/ \E t \in Threads : ClientClosed(t)
  \/ \E t \in Threads : DtorFlag(t)
  \/ \E t \in Threads : DtorClose(t)
  \/ \E t \in Threads : DtorStop(t)
  \/ ThreadStart
  \/ ReactorExit
  \/ RunDoAccept
  \/ \E ok \in BOOLEAN : AcceptComplete(ok)
  \/ AcceptHandler
  \/ AcceptLock
  \/ \E c \in Accepted : RunDoRecv(c)
  \/ \E c \in Accepted : RecvHandler(c)
  \/ \E c \in Accepted : RunDoSend(c)
  \/ \E c \in Accepted : SendHandler(c)
  \/ HandlerEnd
  \/ \E c \in Accepted : RxComplete(c, FALSE)
  \/ \E c \in Accepted : TxComplete(c, BcastLen)

SpecServer == InitServer /\ [][NextServer]_vars

\* The registries the server can hold: no connection twice.
Registries == {<<>>, <<"a1">>, <<"a2">>, <<"a1", "a2">>, <<"a2", "a1">>}

\* A client's close() about to invoke port_closed_cb, the lambda wired by the
\* accept handler, for every input client_closed can get: the registry, the
\* connection c the weak pointer was made from, whether c is still owned by someone
\* (the pointer resolves) or is in its destructor (it does not, and then the
\* registry cannot hold c), the thread, and the other connection's socket.
InitClientClosed ==
  \E list \in Registries, c \in Accepted, t \in Threads, resolves, peer_open \in BOOLEAN :
    LET reg == {list[i] : i \in DOMAIN list} IN
    /\ ~resolves => c \notin reg
    /\ client_list = list
    /\ life = [x \in Conns |-> IF x = c THEN (IF resolves THEN "alive" ELSE "dying")
                                ELSE IF x \in reg THEN "alive" ELSE "none"]
    /\ is_destroying = [x \in Conns |-> x = c /\ ~resolves]
    /\ sock_open = [x \in Conns |-> x # c /\ x \in reg /\ peer_open]
    /\ cb_installed = [x \in Conns |-> x = c \/ x \in reg]
    /\ stack = [u \in Threads |-> IF u = t THEN <<Frame("close", c, "cb")>> ELSE <<>>]
    /\ closer = [x \in Conns |-> IF x = c THEN t ELSE "none"]
    /\ cb_due = [x \in Conns |-> Num(x = c)]
    /\ thr = [s \in Services |-> IF s = SRV THEN "running" ELSE "none"]
    /\ tx_q = [x \in Conns |-> <<>>]
    /\ tx_in_progress = [x \in Conns |-> FALSE]
    /\ is_running = [x \in Conns |-> FALSE]
    /\ posted_send = [x \in Conns |-> 0]
    /\ posted_recv = [x \in Conns |-> 0]
    /\ rx_ops = [x \in Conns |-> <<>>]
    /\ tx_ops = [x \in Conns |-> <<>>]
    /\ wire = [x \in Conns |-> <<>>]
    /\ accepted = [x \in Conns |-> <<>>]
    /\ cb_count = [x \in Conns |-> 0]
    /\ owner = [x \in Conns |-> FALSE]
    /\ io_work = [s \in Services |-> FALSE]
    /\ stopped = [s \in Services |-> FALSE]
    /\ next_id = 0
    /\ crashed = FALSE
    /\ ret = [u \in Callers |-> [saw |-> "none", out |-> "none"]]
    /\ self_join = FALSE
    /\ srv_mutex = "none"
    /\ acc_op = "none"
    /\ acc_client = "none"
    /\ posted_accept = FALSE
    /\ srv_cb_count = 0
    /\ srv_cb_due = 0
    /\ bcast = [u \in Callers |-> [reg |-> {}, tried |-> {}]]
    /\ reactor = SRV
    /\ acc_open = TRUE
    /\ srv_life = "alive"

\* port_closed_cb() at the end of the client's close(), and client_closed.
NextClientClosed ==
  \/ \E t \in Threads : CloseCb(t)
  \/ \E t \in Threads : ClientClosed(t)

SpecClientClosed == InitClientClosed /\ [][NextClientClosed]_vars

----------------------------------------------------------------------------
\* Properties of the standalone client

RECURSIVE Flatten(_)
Flatten(ss) == IF ss = <<>> THEN <<>> ELSE Head(ss) \o Flatten(Tail(ss))

IsPrefix(a, b) == Len(a) <= Len(b) /\ SubSeq(b, 1, Len(a)) = a

\* Thread t takes the step of send_bytes' critical section.
SendLockStep(t) == At(t, "send", "lock") /\ stack'[t] # stack[t]

CloseInProgress(c) ==
  \E t \in Threads : \E i \in DOMAIN stack[t] : stack[t][i].op = "close" /\ stack[t][i].c = c

\* The queue holds at most MAX_TXQ_SIZE buffers.
C1_QueueBound == \A c \in Conns : Len(tx_q[c]) <= MAX_TXQ_SIZE

\* A send that finds MAX_TXQ_SIZE buffers ends in that step, with the length_error.
C1_RejectedAtBound ==
  \A t \in Callers :
    (SendLockStep(t) /\ Len(tx_q[Top(t).c]) = MAX_TXQ_SIZE)
      => (stack'[t] = <<>> /\ ret'[t].out = "length_error")

\* C1: the outbound queue never holds more than MAX_TXQ_SIZE buffers, whatever the
\* interleaving of sends and drain completions; a send that finds MAX_TXQ_SIZE
\* buffers is rejected with the length_error in that very step (it returns, it
\* does not wait for room).
C1_QueueNeverExceedsBound == []C1_QueueBound /\ [][C1_RejectedAtBound]_vars

\* C1 witness: the queue is full while the drain is under way (one byte of the
\* front buffer is on the wire) and a third send has been rejected.
C1_Witness ==
  /\ Len(tx_q[C0]) = MAX_TXQ_SIZE /\ Len(wire[C0]) = 1
  /\ \E t \in Callers : ret[t].out = "length_error"

\* A send that finds room appends its buffer and goes on to post the drain.
C2_Accepts(t) ==
  (SendLockStep(t) /\ Len(tx_q[Top(t).c]) < MAX_TXQ_SIZE)
    => /\ tx_q'[Top(t).c] = Append(tx_q[Top(t).c], MsgBuffer(Top(t).id, Top(t).len))
       /\ stack'[t] # <<>> /\ Head(stack'[t]).pc = "post"

\* A send that finds the queue full fails and changes nothing of the transmit side.
C2_Rejects(t) ==
  (SendLockStep(t) /\ Len(tx_q[Top(t).c]) >= MAX_TXQ_SIZE)
    => /\ ret'[t].out = "length_error"
       /\ stack'[t] = <<>>
       /\ UNCHANGED <<tx_q, tx_in_progress, posted_send, tx_ops>>

\* C2: a send that finds fewer than MAX_TXQ_SIZE buffers appends its buffer and goes
\* on to post the drain; a send that finds MAX_TXQ_SIZE buffers fails with the
\* length_error and leaves the queue (buffers, order, cursors), tx_in_progress,
\* the posted drains and the outstanding writes as they were.
C2_OverflowLeavesQueue == [][\A t \in Callers : C2_Accepts(t) /\ C2_Rejects(t)]_vars

\* C2 witness: exactly MAX_TXQ_SIZE sends were accepted, untouched in the queue,
\* and the next one was rejected.
C2_Witness ==
  /\ Len(accepted[C0]) = MAX_TXQ_SIZE /\ Len(tx_q[C0]) = MAX_TXQ_SIZE
  /\ \A i \in DOMAIN tx_q[C0] : tx_q[C0][i].pos = 0
  /\ posted_send[C0] = MAX_TXQ_SIZE
  /\ \E t \in Callers : ret[t].out = "length_error"

\* The payloads that were appended to the queue and have been popped from it.
Popped(c) == SubSeq(accepted[c], 1, Len(accepted[c]) - Len(tx_q[c]))

\* The bytes of completed writes whose handler has not run yet.
Unhandled(c) ==
  IF tx_ops[c] # <<>> /\ Head(tx_ops[c]).st = "ok" THEN Head(tx_ops[c]).k ELSE 0

\* C3: whatever the sizes of the partial completions, the bytes the socket took are
\* all bytes of the popped buffers followed by the first bytes of the front
\* buffer, up to its cursor plus the completed write not yet handled; and every
\* outstanding write is of the front buffer, from its cursor to its end.
C3_PartialWritesResume ==
  \A c \in Conns :
    /\ wire[c] = Flatten(Popped(c)) \o
         (IF tx_q[c] = <<>> THEN <<>>
          ELSE SubSeq(Head(tx_q[c]).data, 1, Head(tx_q[c]).pos + Unhandled(c)))
    /\ \A i \in DOMAIN tx_ops[c] :
         tx_ops[c][i].st # "err" =>
           /\ tx_q[c] # <<>>
           /\ tx_ops[c][i].buf = Head(tx_q[c]).id
           /\ tx_ops[c][i].off = Head(tx_q[c]).pos
           /\ tx_ops[c][i].n = Head(tx_q[c]).len - Head(tx_q[c]).pos

\* C3 witness: a buffer of MaxLen bytes went out in more than one write: the
\* outstanding write started past the first byte and has completed.
C3_Witness ==
  /\ tx_ops[C0] # <<>> /\ Head(tx_ops[C0]).off > 0 /\ Head(tx_ops[C0]).st = "ok"
  /\ Len(wire[C0]) = MaxLen

\* C4: the bytes on the wire are a prefix of the payloads in the order their
\* enqueues completed: all of A before any of B, nothing interleaved or reordered.
C4_FifoAcrossMessages ==
  \A c \in Conns : IsPrefix(wire[c], Flatten(accepted[c]))

\* C4 witness: two buffers were accepted and a byte of the second is on the wire.
C4_Witness ==
  /\ Len(accepted[C0]) >= 2
  /\ Len(wire[C0]) > Len(accepted[C0][1])

\* C5: port_closed_cb is invoked at most once per connection, and exactly once as
\* soon as the one close() that found the socket open has returned; no other
\* close() (caller, reactor on a socket error, destructor) closes the socket again.
C5_ClosedCallbackOnce ==
  \A c \in Conns :
    /\ cb_count[c] <= 1
    /\ cb_due[c] <= 1
    /\ ~CloseInProgress(c) => cb_count[c] = cb_due[c]

\* C5 witness: the reactor closed the connection on a socket error, the destructor
\* ran its close() afterwards, and the callback was invoked once.
C5_Witness ==
  closer[C0] = IO /\ life[C0] = "dead" /\ cb_count[C0] = 1

\* C6: no thread joins itself: the reactor thread is never in io_thread.join() of
\* its own thread.
C6_NoSelfJoin ==
  /\ ~self_join
  /\ \A i \in DOMAIN stack[IO] : ~(stack[IO][i].pc = "join" /\ stack[IO][i].c = reactor)

\* The reactor thread is in run() with no handler running, none posted and no
\* operation outstanding.
Quiescent ==
  /\ Idle(IO) /\ ~crashed
  /\ posted_send[C0] = 0 /\ posted_recv[C0] = 0 /\ rx_ops[C0] = <<>> /\ tx_ops[C0] = <<>>

C8_ClosedSendReportsError ==
  \A t \in Callers : ret[t].saw = "closed" => ret[t].out \in {"length_error", "channel_closed"}

----------------------------------------------------------------------------
\* Properties of the server

\* C9 (as claimed): a broadcast attempts delivery to every connection that is in
\* the registry when it is called: when the call has ended, by return or by an
\* exception, send was invoked on each of them.
C9_BroadcastReachesEveryClient ==
  \A t \in Callers : Idle(t) => bcast[t].tried = bcast[t].reg

\* No connection is registered twice, an open connection with its callback wired
\* is registered, and a registered connection has been closed at most once.
C10_Registry ==
  /\ \A i, j \in DOMAIN client_list : client_list[i] = client_list[j] => i = j
  /\ \A c \in Accepted : (cb_installed[c] /\ sock_open[c]) => InList(c)
  /\ \A c \in Accepted : InList(c) => cb_count[c] <= 1

\* A connection leaves the registry in its own client_closed only, stays out, and
\* a broadcast invokes send on registered connections only.
C10_RemovalStep ==
  \A c \in Accepted :
    /\ (InList(c) /\ ~InList(c)') =>
         /\ At(IO, "client_closed", "lock") /\ Top(IO).c = c
         /\ ~sock_open[c] /\ cb_count[c] = 1
    /\ (cb_count[c] > 0 /\ ~InList(c)) => ~InList(c)'
    /\ \A t \in Callers : c \in bcast'[t].tried \ bcast[t].tried => InList(c)

\* C10: a registered connection leaves the registry only in its own
\* closed-callback (after its one close), never comes back, and no broadcast
\* invokes send on a connection that is not registered; a connection that is
\* open stays registered, and the registry holds no connection twice.
C10_RemovedOnceByOwnCallback == []C10_Registry /\ [][C10_RemovalStep]_vars

\* a1 closed and was removed, a2 stayed, and a later broadcast went to a2 only.
C10_Witness ==
  /\ cb_count["a1"] = 1 /\ ~InList("a1")
  /\ InList("a2") /\ sock_open["a2"]
  /\ Idle(Sender) /\ bcast[Sender] = [reg |-> {"a2"}, tried |-> {"a2"}]

\* The reactor thread is inside a handler that waits for the server's mutex: the
\* accept handler about to register a client, or a client's closed-callback in
\* client_closed.
ReactorWaitsForMutex ==
  /\ stack[IO] # <<>> /\ Top(IO).pc = "lock"
  /\ Top(IO).op \in {"accept_h", "client_closed"}
  /\ srv_mutex # "none"

\* C11 (as claimed): a caller's close() of the server never waits in
\* io_thread.join() for a reactor thread that is itself waiting for the registry
\* mutex the closing thread holds.
C11_JoinNeverWaitsOnBlockedReactor ==
  \A t \in Callers :
    (At(t, "srv_close", "join") /\ srv_mutex = t) => ~ReactorWaitsForMutex

\* C12 (as claimed): the close() the accept handler calls after an accept error
\* completes on the reactor thread without that thread joining itself.
C12_AcceptErrorCloseReturns ==
  \A i \in DOMAIN stack[IO] :
    (stack[IO][i].op = "srv_close" /\ stack[IO][i].pc = "join") => ~Joinable(SRV)

\* A close() of the server is past its open check and has not returned.
SrvCloseInProgress ==
  \E t \in Threads : \E i \in DOMAIN stack[t] :
    stack[t][i].op = "srv_close" /\ stack[t][i].pc = "join"

\* The closed-callback of the server ran at most once, one teardown at most made
\* it due, and once no close() is in progress it ran exactly as often as due.
C13_OneCallback ==
  /\ srv_cb_due <= 1 /\ srv_cb_count <= srv_cb_due
  /\ ~SrvCloseInProgress => srv_cb_count = srv_cb_due

\* The acceptor never reopens, and the reactor is stopped, joined, a callback made
\* due or invoked, only by the call that found the acceptor open.
C13_OneTeardown ==
  /\ ~acc_open => ~acc_open'
  /\ (stopped'[SRV] # stopped[SRV] \/ srv_cb_due' # srv_cb_due)
       => (acc_open /\ ~acc_open')
  /\ (SrvCloseInProgress' /\ ~SrvCloseInProgress) => (acc_open /\ ~acc_open')
  /\ (srv_cb_count' # srv_cb_count \/ (thr'[SRV] = "joined" /\ thr[SRV] # "joined"))
       => SrvCloseInProgress

\* C13: close() of the server is idempotent over every interleaving of calls from
\* a caller thread, from the reactor thread and from the destructor: one call
\* performs the teardown, the closed-callback runs at most once and exactly once
\* when that call returns, and every other call changes nothing.
C13_CloseIdempotent == []C13_OneCallback /\ [][C13_OneTeardown]_vars

\* The server was closed by a caller, the callback ran once, and the destructor's
\* close() then found it closed: the server is destroyed with one callback.
C13_Witness ==
  /\ srv_life = "dead" /\ ~crashed
  /\ srv_cb_count = 1 /\ thr[SRV] = "joined"


\* A step of the server's close(): the one that closes the acceptor, or the join
\* and callback of the call that did.
SrvCloseStep ==
  \/ acc_open /\ ~acc_open'
  \/ /\ SrvCloseInProgress
     /\ srv_cb_count' # srv_cb_count \/ thr'[SRV] # thr[SRV] \/ ~SrvCloseInProgress'

Leaves(t, op, pc) == At(t, op, pc) /\ stack'[t] # stack[t]

\* port_closed_cb of a wired connection whose object is in its destructor returns
\* with nothing changed; on a live object it enters the removal; the removal takes
\* that connection out of the registry and leaves every other entry, and the
\* entries' order, as they were.
C15_Step ==
  \A t \in Threads : \A c \in Accepted :
    /\ (Leaves(t, "close", "cb") /\ Top(t).c = c /\ cb_installed[c]) =>
         IF life[c] = "alive"
           THEN /\ stack'[t] # <<>> /\ client_list' = client_list
                /\ stack'[t][1].op = "client_closed" /\ stack'[t][1].c = c
           ELSE /\ stack'[t] = Tail(stack[t])
                /\ client_list' = client_list
                /\ <<life, sock_open, tx_q, srv_mutex>>' = <<life, sock_open, tx_q, srv_mutex>>
    /\ (Leaves(t, "client_closed", "lock") /\ Top(t).c = c) =>
         /\ ~InList(c)'
         /\ Len(client_list') = Len(client_list) - Num(InList(c))
         /\ \A d \in Accepted \ {c} : InList(d)' <=> InList(d)
         /\ IsPrefix(client_list', client_list) \/ client_list' = Tail(client_list)
         /\ <<life, sock_open, tx_q>>' = <<life, sock_open, tx_q>>

\* C15: client_closed invoked with a weak reference that no longer resolves
\* changes nothing and touches no connection; with one that resolves it removes
\* that connection from the registry and nothing else.
C15_ClientClosedRemovesOnlyItsOwn == [][C15_Step]_vars

\* The closed-callback of a connection in its destructor has run and returned, and
\* the registry still holds the other connection.
C15_Witness ==
  \E c \in Accepted :
    /\ life[c] = "dying" /\ cb_count[c] = 1
    /\ \A t \in Threads : Idle(t)
    /\ client_list # <<>>


\* At most one async_send of a connection is outstanding (issued, its handler
\* not yet run), and only while tx_in_progress is set.
C16_OneWrite ==
  \A c \in Conns :
    /\ Len(tx_ops[c]) <= 1
    /\ tx_ops[c] # <<>> => tx_in_progress[c]

\* The step issues an async_send on c.
IssuesWrite(c) ==
  /\ tx_ops'[c] # <<>>
  /\ tx_ops'[c][Len(tx_ops'[c])].st = "pending"
  /\ tx_ops[c] = <<>> \/ tx_ops'[c] # tx_ops[c]

\* A posted do_send that finds tx_in_progress set issues nothing; a write is
\* issued by a drain that finds nothing in flight or by the handler of the write
\* that completed, which that step retires; tx_in_progress is cleared only in a
\* step that leaves the queue empty and no write outstanding.
C16_Step ==
  \A c \in Conns :
    /\ (posted_send'[c] < posted_send[c] /\ tx_in_progress[c]) =>
         tx_ops'[c] = tx_ops[c]
    /\ IssuesWrite(c) =>
         \/ ~tx_in_progress[c] /\ tx_ops[c] = <<>> /\ posted_send'[c] < posted_send[c]
         \/ /\ tx_in_progress[c] /\ Len(tx_ops[c]) = 1 /\ tx_ops[c][1].st = "ok"
            /\ Len(tx_ops'[c]) = 1 /\ posted_send'[c] = posted_send[c]
    /\ (tx_in_progress[c] /\ ~tx_in_progress'[c]) =>
         tx_q'[c] = <<>> /\ tx_ops'[c] = <<>>

\* C16: a connection has at most one async write outstanding: a drain scheduled
\* while a send is in flight issues no write, the next write is issued only from
\* the completion of the previous one, and the send-in-flight flag is cleared only
\* when the queue is found empty.
C16_SingleWriteInFlight == []C16_OneWrite /\ [][C16_Step]_vars

\* Two buffers were accepted and both posted drains have run, the second while the
\* first one's write was in flight: one write is outstanding.
C16_Witness ==
  /\ Len(tx_q[C0]) = 2 /\ posted_send[C0] = 0
  /\ \A t \in Callers : Idle(t)
  /\ Len(tx_ops[C0]) = 1 /\ tx_ops[C0][1].st = "pending" /\ tx_in_progress[C0]


\* The step issues an async_receive on c.
IssuesRead(c) ==
  /\ rx_ops'[c] # <<>>
  /\ rx_ops'[c][Len(rx_ops'[c])] = "pending"
  /\ rx_ops[c] = <<>> \/ rx_ops'[c] # rx_ops[c]

\* The handler of c's completed read runs in this step.
HandlesRead(c, result) ==
  rx_ops[c] # <<>> /\ Head(rx_ops[c]) = result /\ rx_ops'[c] # rx_ops[c]

\* The receive loop of c has ended: started by connect() or client_connected(),
\* nothing posted, no read outstanding.
RecvLoopOver(c) == cb_installed[c] /\ posted_recv[c] = 0 /\ rx_ops[c] = <<>>

\* A read is issued by the posted do_recv or by the handler of a successful read
\* only, on an object that is not being destroyed; the handler of a successful
\* read leaves exactly one read outstanding, the handler of a failed read closes
\* the socket and leaves none; an ended loop and a set flag stay as they are.
C17_Step ==
  \A c \in Conns :
    /\ IssuesRead(c) =>
         /\ ~is_destroying[c] /\ life[c] = "alive"
         /\ posted_recv'[c] < posted_recv[c] \/ HandlesRead(c, "ok")
    /\ HandlesRead(c, "ok") => rx_ops'[c] = <<"pending">>
    /\ HandlesRead(c, "err") => rx_ops'[c] = <<>> /\ ~sock_open'[c]
    /\ RecvLoopOver(c) => RecvLoopOver(c)'
    /\ is_destroying[c] => is_destroying'[c]

\* C17: the receive loop keeps one read outstanding: the handler of a successful
\* read reissues exactly one; after a read has failed (its handler calls close())
\* or once destruction has begun, no read is issued on the connection again.
C17_ReceiveLoop ==
  [](\A c \in Conns : Len(rx_ops[c]) <= 1) /\ [][C17_Step]_vars

\* With no send ever made, the reactor thread closed the connection: a read
\* failed, and the loop is over.
C17_Witness ==
  /\ next_id = 0 /\ closer[C0] = IO /\ ~sock_open[C0]
  /\ RecvLoopOver(C0) /\ Idle(IO) /\ thr[C0] = "running"


\* Every queued buffer's cursor lies within the buffer, and only the front one
\* can have moved.
C18_Cursor ==
  \A c \in Conns : \A i \in DOMAIN tx_q[c] :
    /\ 0 <= tx_q[c][i].pos /\ tx_q[c][i].pos <= tx_q[c][i].len
    /\ i > 1 => tx_q[c][i].pos = 0

\* A step that changes a queue appends one fresh buffer, or is the handler of the
\* completed write: it moves the front buffer's cursor by the reported count and
\* keeps the buffer, or the moved cursor reaches the length and the front buffer
\* is removed; the other buffers stay as they are.
C18_Step ==
  \A c \in Conns :
    LET q == tx_q[c]
        q1 == tx_q'[c] IN
    q1 # q =>
      \/ /\ Len(q1) = Len(q) + 1 /\ IsPrefix(q, q1)
         /\ q1[Len(q1)].pos = 0
      \/ /\ q # <<>> /\ tx_ops[c] # <<>> /\ Head(tx_ops[c]).st = "ok"
         /\ LET k == Head(tx_ops[c]).k
                b == Head(q) IN
            \/ /\ b.pos + k < b.len
               /\ q1 = <<[b EXCEPT !.pos = b.pos + k]>> \o Tail(q)
            \/ /\ b.pos + k = b.len
               /\ q1 = Tail(q)

\* C18: every queued buffer has 0 <= pos <= len; only the front buffer's cursor
\* advances, by exactly the byte count the write completion reports; a buffer
\* leaves the queue only when its cursor has reached its length.
C18_CursorWithinBuffer == []C18_Cursor /\ [][C18_Step]_vars

\* A partial write was handled: the front buffer is half sent and stays queued,
\* ahead of a buffer not yet touched.
C18_Witness ==
  /\ Len(tx_q[C0]) = 2
  /\ tx_q[C0][1].len = 2 /\ tx_q[C0][1].pos = 1
  /\ tx_q[C0][2].pos = 0


\* C19 (as claimed): a send_* never appends a buffer to the outbound queue of a
\* connection whose socket close() has already closed: the open check and the
\* enqueue of send_* are one atomic step with respect to close().
C19_NoEnqueueAfterClose ==
  [][\A t \in Callers :
       (SendLockStep(t) /\ tx_q'[Top(t).c] # tx_q[Top(t).c]) => sock_open[Top(t).c]]_vars


\* The buffer of send number id is in the outbound queue of C0.
InQueue(id) == \E i \in DOMAIN tx_q[C0] : tx_q[C0][i].id = id

\* C20 (as claimed): with the connection open and its reactor running, a queue
\* that is not empty always has a write in flight or a drain pending.
C20_NoIdleBacklog ==
  (sock_open[C0] /\ thr[C0] = "running" /\ tx_q[C0] # <<>>) =>
    (tx_ops[C0] # <<>> \/ posted_send[C0] > 0)

\* A queue that is not empty has a write in flight, a drain posted, or a thread
\* in send_bytes that has enqueued and is about to post the drain.
C20_DrainPendingOrPosting ==
  tx_q[C0] # <<>> =>
    \/ tx_ops[C0] # <<>>
    \/ posted_send[C0] > 0
    \/ \E t \in Callers : At(t, "send", "post")

\* C20 (as amended): on a connection that stays open, with the reactor running and
\* no socket error, no drain wake-up is lost: a queue that is not empty always has
\* a write in flight, a drain posted or a sender about to post one, and every
\* accepted buffer is eventually written in full and removed, given that the
\* reactor runs its handlers, the socket completes writes and a thread inside
\* send_bytes reaches its post.
C20_EveryBufferDrained ==
  /\ []C20_DrainPendingOrPosting
  /\ \A id \in 1..MaxSends : (InQueue(id) /\ thr[C0] = "running") ~> ~InQueue(id)

\* The third buffer was accepted when the writes of the first two had completed
\* and the flag was clear; it too is written and removed.
C20_Witness ==
  /\ thr[C0] = "running" /\ sock_open[C0]
  /\ Len(accepted[C0]) = MaxSends /\ wire[C0] = Flatten(accepted[C0])
  /\ tx_q[C0] = <<>> /\ ~tx_in_progress[C0] /\ posted_send[C0] = 0


====
